---- MODULE Spec2Model ----
(***************************************************************************)
(* Model of the DoctorPath server routes (registerRoutes) that implement   *)
(* the doctor-request workflow, the access checks on patient and case      *)
(* reads, and the diagnosis risk calculation.                              *)
(*                                                                         *)
(* Each route handler is one action.  A handler's awaits read rows whose   *)
(* deciding columns (ids, userId, patientId, doctorId) are never written   *)
(* after insert and rows are never deleted, so every handler is taken at   *)
(* the single statement that reads or writes mutable state.                *)
(*                                                                         *)
(* Real numbers of the risk calculation are carried as integers in tenths  *)
(* (tumorSize, biomarker1, multipliers) and hundredths (raw score).        *)
(***************************************************************************)
EXTENDS Integers, Sequences, FiniteSets, TLC

VARIABLES
    session,         \* session store: session id -> [userId, role]
    doctorRequests,  \* doctor_requests table, row id = index
    patientCases,    \* patient_cases table, row id = index
    now,             \* clock read by defaultNow() / new Date()
    granted,         \* history: <<doctorId, patientId>> pairs a PATCH moved to accepted
    resp,            \* the response of the handler that ran last
    diagIn,          \* body and caller role of a /api/diagnosis/calculate call
    diagOut,         \* its response
    userRows,        \* users table: email, name, phone, role; row id = index
    patientRows,     \* patients table: userId and profile columns
    doctorRows,      \* doctors table: userId and profile columns
    signupCalls,     \* the signup handlers in flight: position and locals
    patchCalls,      \* PATCH /api/doctor-requests/:id handlers in flight
    readCalls,       \* reads of a doctor request in flight
    versions,        \* history: every value the request row has had
    chunkCall,       \* the activation of chunkText: parameters and locals
    auth,            \* the client's useAuth store: user, isLoading
    initCalls,       \* the client's initializeAuth calls: position
    view             \* what each ProtectedRoute rendered last

\* the variables of the account tables, of the handlers taken statement by
\* statement, of chunkText and of the client
accountVars == <<userRows, patientRows, doctorRows, signupCalls>>
raceVars == <<patchCalls, readCalls, versions>>
clientVars == <<auth, initCalls, view>>
otherVars == <<accountVars, raceVars, chunkCall, clientVars>>

vars == <<session, doctorRequests, patientCases, now, granted, resp, diagIn, diagOut,
          otherVars>>

(***************************************************************************)
(* Bounds                                                                  *)
(***************************************************************************)
MaxRequests == 2
MaxCases == 1
MaxTime == 3
MaxTumorSize == 16
MaxTextLength == 6
MaxChunkSize == 4
MaxInitCalls == 2

(***************************************************************************)
(* Values                                                                  *)
(***************************************************************************)
Null == 0                     \* null / no row / undefined id
Undefined == "undefined"      \* a key the JSON body does not carry
NullValue == "null"           \* JSON null
None == "none"
NotANumber == -999999         \* a biomarker1 that is a string, null or missing

SessionIds == {1}

\* users, patients and doctors rows as the two signup routes leave them
\* after two patients and two doctors have signed up (serial ids per table).
users == <<[id |-> 1, role |-> "patient"], [id |-> 2, role |-> "patient"],
           [id |-> 3, role |-> "doctor"], [id |-> 4, role |-> "doctor"]>>
patients == <<[id |-> 1, userId |-> 1], [id |-> 2, userId |-> 2]>>
doctors == <<[id |-> 1, userId |-> 3], [id |-> 2, userId |-> 4]>>

UserIds == DOMAIN users
PatientIds == DOMAIN patients
DoctorIds == DOMAIN doctors
MissingId == Len(users) + 1   \* an id no table holds

\* doctor_requests.status is a text column; the comment names four values.
StatusEnum == {"pending", "accepted", "declined", "reschedule"}
\* status values a PATCH body may carry: the four, a string outside them,
\* no key at all, and JSON null.
BodyStatus == StatusEnum \cup {"approved", Undefined, NullValue}

NoSession == [userId |-> Null, role |-> None]
NoResp == [op |-> None, sid |-> Null, id |-> Null, code |-> 0]

(***************************************************************************)
(* storage.ts: a lookup returns the id of the row it finds, Null for none  *)
(***************************************************************************)
getUserById(id) == IF id \in UserIds THEN id ELSE Null

getPatientById(id) == IF id \in PatientIds THEN id ELSE Null

getDoctorById(id) == IF id \in DoctorIds THEN id ELSE Null

getPatientByUserId(userId) ==
    IF \E i \in PatientIds : patients[i].userId = userId
    THEN CHOOSE i \in PatientIds : patients[i].userId = userId
    ELSE Null

getDoctorByUserId(userId) ==
    IF \E i \in DoctorIds : doctors[i].userId = userId
    THEN CHOOSE i \in DoctorIds : doctors[i].userId = userId
    ELSE Null

getDoctorRequestById(id) == IF id \in DOMAIN doctorRequests THEN id ELSE Null

getDoctorRequestsByDoctor(doctorId) ==
    {i \in DOMAIN doctorRequests : doctorRequests[i].doctorId = doctorId}

getPatientCaseById(id) == IF id \in DOMAIN patientCases THEN id ELSE Null

\* the row an insert stores: a value that is undefined becomes the column's
\* default (null), scheduleNote and proposedSlot are never given, and
\* createdAt and updatedAt are defaultNow()
insertedRow(data, t) ==
    [patientId |-> data.patientId, doctorId |-> data.doctorId,
     hospitalId |-> data.hospitalId,
     note |-> IF data.note = Undefined THEN NullValue ELSE data.note,
     dataShare |-> IF data.dataShare = Undefined THEN NullValue ELSE data.dataShare,
     status |-> data.status, scheduleNote |-> NullValue,
     proposedSlot |-> NullValue, createdAt |-> t, updatedAt |-> t]

\* an insert that puts the new row first, so that serial ids move
createDoctorRequest_prepend(data, t) == <<insertedRow(data, t)>> \o doctorRequests

\* insert into doctor_requests ... returning
createDoctorRequest(data, t) == Append(doctorRequests, insertedRow(data, t))

\* an update whose SET clause leaves the status out
updateDoctorRequest_keepStatus(id, data, t) ==
    [doctorRequests EXCEPT ![id] =
        [@ EXCEPT !.scheduleNote = IF data.scheduleNote = Undefined THEN @ ELSE data.scheduleNote,
                  !.proposedSlot = IF data.proposedSlot = Undefined THEN @ ELSE data.proposedSlot,
                  !.updatedAt = t]]

\* update ... set {...data, updatedAt: new Date()}: every key of data is
\* set; a key that is undefined (for an id: Null) is left out of the SET
\* clause
updateDoctorRequest(id, data, t) ==
    [doctorRequests EXCEPT ![id] =
        [@ EXCEPT !.status = IF data.status = Undefined THEN @ ELSE data.status,
                  !.scheduleNote = IF data.scheduleNote = Undefined THEN @ ELSE data.scheduleNote,
                  !.proposedSlot = IF data.proposedSlot = Undefined THEN @ ELSE data.proposedSlot,
                  !.patientId = IF data.patientId = Null THEN @ ELSE data.patientId,
                  !.doctorId = IF data.doctorId = Null THEN @ ELSE data.doctorId,
                  !.note = IF data.note = Undefined THEN @ ELSE data.note,
                  !.updatedAt = t]]

createPatientCase(data) ==
    Append(patientCases,
           [patientId |-> data.patientId, doctorId |-> data.doctorId,
            treatmentPlan |-> FALSE])

\* the only update of a case the routes make that a read depends on:
\* generate-treatment stores the plan
updatePatientCase(id) ==
    [patientCases EXCEPT ![id] = [@ EXCEPT !.treatmentPlan = TRUE]]

(***************************************************************************)
(* Middleware: 0 stands for next()                                         *)
(***************************************************************************)
requireAuth(s) == IF session[s].userId = Null THEN 401 ELSE 0

requireRole(s, role) ==
    IF session[s].userId = Null THEN 401
    ELSE IF session[s].role # role THEN 403
    ELSE 0

(***************************************************************************)
(* Requests are served one at a time: a handler starts when no response is *)
(* outstanding, and its response stays in resp until the client has it.    *)
(***************************************************************************)
Idle == resp = NoResp

Receive ==
    /\ resp # NoResp
    /\ resp' = NoResp
    /\ UNCHANGED <<session, doctorRequests, patientCases, now, granted, diagIn, diagOut, otherVars>>

(***************************************************************************)
(* Authentication routes                                                   *)
(***************************************************************************)
\* POST /api/auth/login: email names user u (MissingId: no such email)
loginCode(u, validPassword) ==
    IF getUserById(u) = Null THEN 401
    ELSE IF ~validPassword THEN 401
    ELSE 200

Login(s, u, validPassword) ==
    LET code == loginCode(u, validPassword) IN
    /\ Idle
    /\ session' = IF code = 200
                  THEN [session EXCEPT ![s] = [userId |-> u, role |-> users[u].role]]
                  ELSE session
    /\ resp' = [op |-> "login", sid |-> s, id |-> u, code |-> code]
    /\ UNCHANGED <<doctorRequests, patientCases, now, granted, diagIn, diagOut, otherVars>>

\* a logout that answers without destroying the session
Logout_keepSession(s) ==
    /\ Idle
    /\ resp' = [op |-> "logout", sid |-> s, id |-> Null, code |-> 200]
    /\ UNCHANGED <<session, doctorRequests, patientCases, now, granted, diagIn, diagOut, otherVars>>

\* POST /api/auth/logout: session.destroy
Logout(s) ==
    /\ Idle
    /\ session' = [session EXCEPT ![s] = NoSession]
    /\ resp' = [op |-> "logout", sid |-> s, id |-> Null, code |-> 200]
    /\ UNCHANGED <<doctorRequests, patientCases, now, granted, diagIn, diagOut, otherVars>>

(***************************************************************************)
(* Doctor request routes                                                   *)
(***************************************************************************)
\* POST /api/doctor-requests
postDoctorRequestCode(s, doctorId) ==
    LET mw == requireRole(s, "patient")
        user == getUserById(session[s].userId)
        patient == getPatientByUserId(user)
    IN  IF mw # 0 THEN mw
        ELSE IF user = Null \/ users[user].role # "patient" THEN 403
        ELSE IF patient = Null THEN 404
        ELSE IF getDoctorById(doctorId) = Null THEN 500   \* foreign key doctor_id
        ELSE 200

\* the values handed to createDoctorRequest, taken from the body instead
\* of the session and the literal where the body carries them
newDoctorRequest_fromBody(patient, body) ==
    [patientId |-> IF body.patientId = Null THEN patient ELSE body.patientId,
     doctorId |-> body.doctorId, hospitalId |-> body.hospitalId,
     note |-> body.note, dataShare |-> body.dataShare,
     status |-> IF body.status = Undefined THEN "pending" ELSE body.status]

\* the values handed to createDoctorRequest: doctorId, hospitalId, note and
\* dataShare are destructured from the body, patientId is patient.id and
\* status is the literal "pending"
newDoctorRequest(patient, body) ==
    [patientId |-> patient, doctorId |-> body.doctorId,
     hospitalId |-> body.hospitalId, note |-> body.note,
     dataShare |-> body.dataShare, status |-> "pending"]

PostDoctorRequest(s, body) ==
    LET code == postDoctorRequestCode(s, body.doctorId)
        patient == getPatientByUserId(session[s].userId)
    IN  /\ Idle
        /\ code = 200 => Len(doctorRequests) < MaxRequests /\ now < MaxTime
        /\ doctorRequests' =
              IF code = 200
              THEN createDoctorRequest(newDoctorRequest(patient, body), now + 1)
              ELSE doctorRequests
        /\ now' = IF code = 200 THEN now + 1 ELSE now
        /\ resp' = [op |-> "postDoctorRequest", sid |-> s,
                    id |-> IF code = 200 THEN Len(doctorRequests) + 1 ELSE Null,
                    code |-> code]
        /\ UNCHANGED <<session, patientCases, granted, diagIn, diagOut, otherVars>>

\* PATCH /api/doctor-requests/:id registered without requireRole("doctor")
patchDoctorRequestCode_noMiddleware(s, id, body) ==
    LET existingRequest == getDoctorRequestById(id)
        doctor == getDoctorByUserId(session[s].userId)
    IN  IF existingRequest = Null THEN 404
        ELSE IF doctor = Null \/ doctorRequests[existingRequest].doctorId # doctor THEN 403
        ELSE IF body.status = NullValue THEN 500
        ELSE 200

\* PATCH /api/doctor-requests/:id without the existence check: reading
\* existingRequest.doctorId of null throws into the catch
patchDoctorRequestCode_noNotFound(s, id, body) ==
    LET mw == requireRole(s, "doctor")
        existingRequest == getDoctorRequestById(id)
        doctor == getDoctorByUserId(session[s].userId)
    IN  IF mw # 0 THEN mw
        ELSE IF doctor = Null THEN 403
        ELSE IF existingRequest = Null THEN 500
        ELSE IF doctorRequests[existingRequest].doctorId # doctor THEN 403
        ELSE IF body.status = NullValue THEN 500
        ELSE 200

\* PATCH /api/doctor-requests/:id without the ownership comparison
patchDoctorRequestCode_anyDoctor(s, id, body) ==
    LET mw == requireRole(s, "doctor")
        existingRequest == getDoctorRequestById(id)
        doctor == getDoctorByUserId(session[s].userId)
    IN  IF mw # 0 THEN mw
        ELSE IF existingRequest = Null THEN 404
        ELSE IF doctor = Null THEN 403
        ELSE IF body.status = NullValue THEN 500
        ELSE 200

\* PATCH /api/doctor-requests/:id
patchDoctorRequestCode(s, id, body) ==
    LET mw == requireRole(s, "doctor")
        existingRequest == getDoctorRequestById(id)
        doctor == getDoctorByUserId(session[s].userId)
    IN  IF mw # 0 THEN mw
        ELSE IF existingRequest = Null THEN 404
        ELSE IF doctor = Null \/ doctorRequests[existingRequest].doctorId # doctor THEN 403
        ELSE IF body.status = NullValue THEN 500           \* status is NOT NULL
        ELSE 200

\* the whole body handed to updateDoctorRequest
requestUpdate_wholeBody(body) == body

\* the object handed to updateDoctorRequest: status, scheduleNote and
\* proposedSlot destructured from the body, no other key
requestUpdate(body) ==
    [status |-> body.status, scheduleNote |-> body.scheduleNote,
     proposedSlot |-> body.proposedSlot,
     patientId |-> Null, doctorId |-> Null, note |-> Undefined]

PatchDoctorRequest(s, id, body) ==
    LET code == patchDoctorRequestCode(s, id, body) IN
    /\ Idle
    /\ code = 200 => now < MaxTime
    /\ doctorRequests' = IF code = 200
                         THEN updateDoctorRequest(id, requestUpdate(body), now + 1)
                         ELSE doctorRequests
    /\ now' = IF code = 200 THEN now + 1 ELSE now
    /\ granted' = IF code = 200 /\ body.status = "accepted"
                  THEN granted \cup {<<doctorRequests[id].doctorId,
                                       doctorRequests[id].patientId>>}
                  ELSE granted
    /\ resp' = [op |-> "patchDoctorRequest", sid |-> s, id |-> id, code |-> code]
    /\ UNCHANGED <<session, patientCases, diagIn, diagOut, otherVars>>

(***************************************************************************)
(* Patient route                                                           *)
(***************************************************************************)
\* GET /api/patients/:id, the doctor branch: requests.some(...)
hasRelationship(doctor, id) ==
    \E r \in getDoctorRequestsByDoctor(doctor) :
        doctorRequests[r].patientId = id /\ doctorRequests[r].status = "approved"

getPatientCode(s, id) ==
    LET mw == requireAuth(s)
        patient == getPatientById(id)
        doctor == getDoctorByUserId(session[s].userId)
    IN  IF mw # 0 THEN mw
        ELSE IF patient = Null THEN 404
        ELSE IF session[s].role = "patient"
                /\ patients[patient].userId # session[s].userId THEN 403
        ELSE IF session[s].role = "doctor" /\ doctor = Null THEN 403
        ELSE IF session[s].role = "doctor" /\ ~hasRelationship(doctor, id) THEN 403
        ELSE 200

GetPatient(s, id) ==
    /\ Idle
    /\ resp' = [op |-> "getPatient", sid |-> s, id |-> id, code |-> getPatientCode(s, id)]
    /\ UNCHANGED <<session, doctorRequests, patientCases, now, granted, diagIn, diagOut, otherVars>>

(***************************************************************************)
(* Patient case routes                                                     *)
(***************************************************************************)
\* POST /api/cases
postCaseCode(s, patientId) ==
    LET mw == requireRole(s, "doctor")
        doctor == getDoctorByUserId(session[s].userId)
    IN  IF mw # 0 THEN mw
        ELSE IF doctor = Null THEN 403
        ELSE IF getPatientById(patientId) = Null THEN 500   \* foreign key patient_id
        ELSE 200

PostCase(s, patientId) ==
    LET code == postCaseCode(s, patientId)
        doctor == getDoctorByUserId(session[s].userId)
    IN  /\ Idle
        /\ code = 200 => Len(patientCases) < MaxCases
        /\ patientCases' =
              IF code = 200
              THEN createPatientCase([patientId |-> patientId, doctorId |-> doctor])
              ELSE patientCases
        /\ resp' = [op |-> "postCase", sid |-> s,
                    id |-> IF code = 200 THEN Len(patientCases) + 1 ELSE Null,
                    code |-> code]
        /\ UNCHANGED <<session, doctorRequests, now, granted, diagIn, diagOut, otherVars>>

\* the authorization block with the doctor branch left out
caseAccessCode_anyDoctor(s, id) ==
    LET mw == requireAuth(s)
        patientCase == getPatientCaseById(id)
        patient == getPatientByUserId(session[s].userId)
    IN  IF mw # 0 THEN mw
        ELSE IF patientCase = Null THEN 404
        ELSE IF session[s].role = "patient"
                /\ (patient = Null \/ patient # patientCases[patientCase].patientId) THEN 403
        ELSE 200

\* the authorization block GET /api/cases/:id and GET /api/cases/:id/pdf share
\* the authorization block of the two case reads without the patient branch
caseAccessCode_anyPatient(s, id) ==
    LET mw == requireAuth(s)
        patientCase == getPatientCaseById(id)
        doctor == getDoctorByUserId(session[s].userId)
    IN  IF mw # 0 THEN mw
        ELSE IF patientCase = Null THEN 404
        ELSE IF session[s].role = "doctor"
                /\ (doctor = Null \/ patientCases[patientCase].doctorId # doctor) THEN 403
        ELSE 200

caseAccessCode(s, id) ==
    LET mw == requireAuth(s)
        patientCase == getPatientCaseById(id)
        patient == getPatientByUserId(session[s].userId)
        doctor == getDoctorByUserId(session[s].userId)
    IN  IF mw # 0 THEN mw
        ELSE IF patientCase = Null THEN 404
        ELSE IF session[s].role = "patient"
                /\ (patient = Null \/ patient # patientCases[patientCase].patientId) THEN 403
        ELSE IF session[s].role = "doctor"
                /\ (doctor = Null \/ patientCases[patientCase].doctorId # doctor) THEN 403
        ELSE 200

\* GET /api/cases/:id
GetCase(s, id) ==
    /\ Idle
    /\ resp' = [op |-> "getCase", sid |-> s, id |-> id, code |-> caseAccessCode(s, id)]
    /\ UNCHANGED <<session, doctorRequests, patientCases, now, granted, diagIn, diagOut, otherVars>>

\* GET /api/cases/:id/pdf
getCasePdfCode(s, id) ==
    LET access == caseAccessCode(s, id) IN
    IF access # 200 THEN access
    ELSE IF ~patientCases[id].treatmentPlan THEN 400
    ELSE 200

GetCasePdf(s, id) ==
    /\ Idle
    /\ resp' = [op |-> "getCasePdf", sid |-> s, id |-> id, code |-> getCasePdfCode(s, id)]
    /\ UNCHANGED <<session, doctorRequests, patientCases, now, granted, diagIn, diagOut, otherVars>>

\* POST /api/cases/:id/generate-treatment; llmSuccess is result.success of
\* generateTreatmentPlan
generateTreatmentCode(s, id, llmSuccess) ==
    LET mw == requireRole(s, "doctor")
        patientCase == getPatientCaseById(id)
        doctor == getDoctorByUserId(session[s].userId)
    IN  IF mw # 0 THEN mw
        ELSE IF patientCase = Null THEN 404
        ELSE IF doctor = Null \/ patientCases[patientCase].doctorId # doctor THEN 403
        ELSE IF ~llmSuccess THEN 500
        ELSE 200

GenerateTreatment(s, id, llmSuccess) ==
    LET code == generateTreatmentCode(s, id, llmSuccess) IN
    /\ Idle
    /\ patientCases' = IF code = 200 THEN updatePatientCase(id) ELSE patientCases
    /\ resp' = [op |-> "generateTreatment", sid |-> s, id |-> id, code |-> code]
    /\ UNCHANGED <<session, doctorRequests, now, granted, diagIn, diagOut, otherVars>>

(***************************************************************************)
(* Diagnosis route: POST /api/diagnosis/calculate                          *)
(***************************************************************************)
CancerTypes == {"liver", "lung", "breast"}

Min(a, b) == IF a < b THEN a ELSE b

\* the schema without .positive() on tumorSize
diagnosisSchemaOk_anyTumorSize(data) ==
    /\ data.cancerType \in CancerTypes
    /\ data.biomarker1 # NotANumber

\* diagnosisSchema.parse: z.enum, z.number().positive(), z.number(); the two
\* optional strings accept any string, null or no key
diagnosisSchemaOk(data) ==
    /\ data.cancerType \in CancerTypes
    /\ data.tumorSize > 0
    /\ data.biomarker1 # NotANumber

\* the smoking multiplier with "former" scored like "current"
smokingMultiplier_formerAsCurrent(data) ==
    IF data.additionalFactor = "current" THEN 18
    ELSE IF data.additionalFactor = "former" THEN 18
    ELSE 10

\* smokingMultiplier and her2Multiplier, in tenths
smokingMultiplier(data) ==
    IF data.additionalFactor = "current" THEN 18
    ELSE IF data.additionalFactor = "former" THEN 13
    ELSE 10

\* the HER2 multiplier applied to every biomarker2 that is given
her2Multiplier_anyGiven(data) ==
    IF data.biomarker2 \in {Undefined, NullValue} THEN 10 ELSE 14

her2Multiplier(data) == IF data.biomarker2 = "positive" THEN 14 ELSE 10

\* the liver table with the tumor term of the middle band subtracted
liverScore_shrinking(data) ==
    IF data.biomarker1 > 4000 THEN (750 + Min(data.tumorSize * 3, 200)) * 10
    ELSE IF data.biomarker1 > 200 THEN (450 - Min(data.tumorSize * 2, 250)) * 10
    ELSE (150 + Min(data.tumorSize, 150)) * 10

\* the liver table with the upper threshold taken as >= 400
liverScore_inclusive(data) ==
    IF data.biomarker1 >= 4000 THEN (750 + Min(data.tumorSize * 3, 200)) * 10
    ELSE IF data.biomarker1 > 200 THEN (450 + Min(data.tumorSize * 2, 250)) * 10
    ELSE (150 + Min(data.tumorSize, 150)) * 10

\* the switch: the value of `probability` before the cap, in hundredths
\* (tumorSize and biomarker1 are in tenths)
liverScore(data) ==
    IF data.biomarker1 > 4000 THEN (750 + Min(data.tumorSize * 3, 200)) * 10
    ELSE IF data.biomarker1 > 200 THEN (450 + Min(data.tumorSize * 2, 250)) * 10
    ELSE (150 + Min(data.tumorSize, 150)) * 10

lungScore(data) ==
    IF data.biomarker1 > 100 THEN (600 + Min(data.tumorSize * 4, 250)) * smokingMultiplier(data)
    ELSE IF data.biomarker1 > 50 THEN (350 + Min(data.tumorSize * 3, 200)) * smokingMultiplier(data)
    ELSE (100 + Min(data.tumorSize * 2, 150)) * smokingMultiplier(data)

breastScore(data) ==
    IF data.biomarker1 > 1000 THEN (700 + Min(data.tumorSize * 3, 200)) * her2Multiplier(data)
    ELSE IF data.biomarker1 > 300 THEN (400 + Min(data.tumorSize * 2, 250)) * her2Multiplier(data)
    ELSE (120 + Min(data.tumorSize, 150)) * her2Multiplier(data)

rawScore(data) ==
    IF data.cancerType = "liver" THEN liverScore(data)
    ELSE IF data.cancerType = "lung" THEN lungScore(data)
    ELSE IF data.cancerType = "breast" THEN breastScore(data)
    ELSE 0

\* the largest power of two that is at most x, for 1 <= x < 256
pow2Floor(x) == CHOOSE e \in {1, 2, 4, 8, 16, 32, 64, 128} : e <= x /\ x < 2 * e

\* base * 1.4 in doubles at a decimal tie n.5: the double 1.4 lies
\* 0.4 * 2^-52 below 1.4, so the product lands on the tie only while
\* base * 0.4 * 2^-52 stays under half an ulp of the tie, that is while
\* 0.8 * base < 2^e for the tie in [2^e, 2^(e+1)); otherwise it is the double
\* just below the tie.  (The doubles 1.8 and 1.3 lie above 1.8 and 1.3 and
\* a sum without a multiplier is exact at a tie, so no other product falls
\* below its tie.)
productBelowTie(data) ==
    /\ data.cancerType = "breast"
    /\ her2Multiplier(data) = 14
    /\ rawScore(data) % 100 = 50
    /\ 8 * (rawScore(data) \div 14) > 100 * pow2Floor(rawScore(data) \div 100)

\* the operand of Math.round in hundredths; a double just below a tie is
\* carried as the hundredth below it
roundOperand(data) ==
    IF productBelowTie(data) THEN rawScore(data) - 1 ELSE rawScore(data)

\* Math.round truncating instead of rounding
MathRound_floor(x) == x \div 100

\* Math.round of a value in hundredths: nearest integer, halves up
MathRound(x) == (x + 50) \div 100

\* the rounding without the cap
capProbability_uncapped(raw) == MathRound(raw)

\* Math.min(Math.round(probability), 98)
capProbability(raw) == Min(MathRound(raw), 98)

\* the tiers with the High threshold taken as > 70
riskLevelOf_exclusive(probability) ==
    IF probability > 70 THEN "High"
    ELSE IF probability >= 40 THEN "Moderate"
    ELSE "Low"

riskLevelOf(probability) ==
    IF probability >= 70 THEN "High"
    ELSE IF probability >= 40 THEN "Moderate"
    ELSE "Low"

\* the texts chosen by thresholds of their own, 75 and 40
recommendationOf_ownThresholds(probability, cancerType) ==
    IF probability >= 75 THEN [text |-> "High-risk indicators detected", names |-> cancerType]
    ELSE IF probability >= 40 THEN [text |-> "Moderate risk detected", names |-> None]
    ELSE [text |-> "Current biomarkers show low risk", names |-> None]

\* the template strings: which of the three texts, and the cancer type the
\* text interpolates (only the first does)
recommendationOf(probability, cancerType) ==
    IF probability >= 70 THEN [text |-> "High-risk indicators detected", names |-> cancerType]
    ELSE IF probability >= 40 THEN [text |-> "Moderate risk detected", names |-> None]
    ELSE [text |-> "Current biomarkers show low risk", names |-> None]

\* charAt(0).toUpperCase() + slice(1)
capitalize(cancerType) ==
    IF cancerType = "liver" THEN "Liver"
    ELSE IF cancerType = "lung" THEN "Lung"
    ELSE IF cancerType = "breast" THEN "Breast"
    ELSE cancerType

NoBody == [cancerType |-> None, tumorSize |-> 0, biomarker1 |-> 0,
           biomarker2 |-> Undefined, additionalFactor |-> Undefined]

NoDiag == [code |-> 0, raw |-> 0, probability |-> 0, riskLevel |-> None,
           recommendation |-> [text |-> None, names |-> None],
           cancerType |-> None, tumorSize |-> 0]

diagnosisError(code) == [NoDiag EXCEPT !.code = code]

\* a calculation whose probability grows with the stored requests
calculateDiagnosis_stateful(s, data) ==
    LET mw == requireRole(s, "doctor")
        raw == rawScore(data)
        probability == Min(capProbability(roundOperand(data)) + Len(doctorRequests), 95)
    IN  IF mw # 0 THEN diagnosisError(mw)
        ELSE IF ~diagnosisSchemaOk(data) THEN diagnosisError(500)
        ELSE [code |-> 200, raw |-> raw, probability |-> probability,
              riskLevel |-> riskLevelOf(probability),
              recommendation |-> recommendationOf(probability, data.cancerType),
              cancerType |-> capitalize(data.cancerType),
              tumorSize |-> data.tumorSize]

\* the handler's response; raw is the decimal value of the local
\* `probability` before line 954
calculateDiagnosis(s, data) ==
    LET mw == requireRole(s, "doctor")
        raw == rawScore(data)
        probability == capProbability(roundOperand(data))
    IN  IF mw # 0 THEN diagnosisError(mw)
        ELSE IF ~diagnosisSchemaOk(data) THEN diagnosisError(500)
        ELSE [code |-> 200, raw |-> raw, probability |-> probability,
              riskLevel |-> riskLevelOf(probability),
              recommendation |-> recommendationOf(probability, data.cancerType),
              cancerType |-> capitalize(data.cancerType),
              tumorSize |-> data.tumorSize]

Calculate(s) ==
    /\ Idle
    /\ diagIn # NoBody
    /\ diagOut = NoDiag
    /\ diagOut' = calculateDiagnosis(s, diagIn)
    /\ resp' = [op |-> "calculate", sid |-> s, id |-> Null, code |-> diagOut'.code]
    /\ UNCHANGED <<session, doctorRequests, patientCases, now, granted, diagIn, otherVars>>

\* a further call of the route with the body of the first; the handler has
\* no await, so a call runs from request to response in one step
CalculateAgain(s) ==
    /\ Idle
    /\ diagOut # NoDiag
    /\ diagOut' = calculateDiagnosis(s, diagIn)
    /\ resp' = [op |-> "calculateAgain", sid |-> s, id |-> Null, code |-> diagOut'.code]
    /\ UNCHANGED <<session, doctorRequests, patientCases, now, granted, diagIn, otherVars>>

(***************************************************************************)
(* Account tables: profile updates and signup                              *)
(*                                                                         *)
(* One profile column (address for a patient, specialization for a doctor) *)
(* stands for the profile columns a PATCH sets together.  An email is a    *)
(* number.                                                                 *)
(***************************************************************************)
\* the three tables after the four signups behind users, patients, doctors
SignedUpUsers ==
    [i \in UserIds |-> [email |-> i, name |-> "name", phone |-> NullValue,
                        role |-> users[i].role]]
SignedUpPatients == [i \in PatientIds |-> [userId |-> patients[i].userId, address |-> NullValue]]
SignedUpDoctors ==
    [i \in DoctorIds |-> [userId |-> doctors[i].userId, specialization |-> NullValue]]

\* bodies of the two profile PATCH routes: each of name, phone and the
\* profile column given or left out
ProfileBodies ==
    [name : {Undefined, "new name"}, phone : {Undefined, "new phone"},
     profile : {Undefined, "new value"}]

\* db.update(users).set({name?, phone?}).where(id = userId)
updateUserRow(userId, name, phone) ==
    [userRows EXCEPT ![userId] =
        [@ EXCEPT !.name = IF name = Undefined THEN @ ELSE name,
                  !.phone = IF phone = Undefined THEN @ ELSE phone]]

\* PATCH /api/patients/:id without the ownership check
patchPatientCode_noOwnership(s, id, body) ==
    LET mw == requireAuth(s)
    IN  IF mw # 0 THEN mw
        ELSE IF id \notin DOMAIN patientRows THEN 404
        ELSE IF body.profile = Undefined THEN 500
        ELSE 200

\* PATCH /api/patients/:id; an update whose SET clause is empty throws
\* ("No values to set") into the catch
patchPatientCode(s, id, body) ==
    LET mw == requireAuth(s)
    IN  IF mw # 0 THEN mw
        ELSE IF id \notin DOMAIN patientRows THEN 404
        ELSE IF patientRows[id].userId # session[s].userId THEN 403
        ELSE IF body.profile = Undefined THEN 500
        ELSE 200

\* the user row is written before the patient row, so it is written also
\* when the patient update throws
PatchPatient(s, id, body) ==
    LET code == patchPatientCode(s, id, body) IN
    /\ Idle
    /\ userRows' = IF code \in {200, 500}
                   THEN updateUserRow(patientRows[id].userId, body.name, body.phone)
                   ELSE userRows
    /\ patientRows' = IF code = 200
                      THEN [patientRows EXCEPT ![id] = [@ EXCEPT !.address = body.profile]]
                      ELSE patientRows
    /\ resp' = [op |-> "patchPatient", sid |-> s, id |-> id, code |-> code]
    /\ UNCHANGED <<session, doctorRequests, patientCases, now, granted, diagIn, diagOut,
                   doctorRows, signupCalls, raceVars, chunkCall, clientVars>>

\* PATCH /api/doctors/:id
patchDoctorCode(s, id, body) ==
    LET mw == requireAuth(s)
    IN  IF mw # 0 THEN mw
        ELSE IF id \notin DOMAIN doctorRows THEN 404
        ELSE IF doctorRows[id].userId # session[s].userId THEN 403
        ELSE IF body.profile = Undefined THEN 500
        ELSE 200

\* only the name of the user row is written here, never the phone
PatchDoctor(s, id, body) ==
    LET code == patchDoctorCode(s, id, body) IN
    /\ Idle
    /\ userRows' = IF code \in {200, 500}
                   THEN updateUserRow(doctorRows[id].userId, body.name, Undefined)
                   ELSE userRows
    /\ doctorRows' = IF code = 200
                     THEN [doctorRows EXCEPT ![id] = [@ EXCEPT !.specialization = body.profile]]
                     ELSE doctorRows
    /\ resp' = [op |-> "patchDoctor", sid |-> s, id |-> id, code |-> code]
    /\ UNCHANGED <<session, doctorRequests, patientCases, now, granted, diagIn, diagOut,
                   patientRows, signupCalls, raceVars, chunkCall, clientVars>>

\* The two signup handlers, statement by statement.  Each signup runs in a
\* browser session of its own, named like the call.
SignupIds == {1, 2}
Emails == {1, 2}

\* a call that has not arrived has no locals yet
NoSignupCall == [pc |-> "none"]

\* storage.getUserByEmail
getUserByEmail(email) ==
    IF \E i \in DOMAIN userRows : userRows[i].email = email
    THEN CHOOSE i \in DOMAIN userRows : userRows[i].email = email
    ELSE Null

\* schema parse and the existence check: 409 when the email is taken.
\* profileOk tells whether the profile insert will be accepted: a doctor's
\* hospitalId must name a hospital, a patient's age must be an integer.
SignupCheck(p, kind, email, profileOk) ==
    /\ signupCalls[p].pc = "none"
    /\ signupCalls' = [signupCalls EXCEPT ![p] =
          IF getUserByEmail(email) # Null
          THEN [pc |-> "done", kind |-> kind, email |-> email, profileOk |-> profileOk,
                user |-> Null, code |-> 409]
          ELSE [pc |-> "hashed", kind |-> kind, email |-> email, profileOk |-> profileOk,
                user |-> Null, code |-> 0]]
    /\ UNCHANGED <<session, doctorRequests, patientCases, now, granted, resp, diagIn,
                   diagOut, userRows, patientRows, doctorRows, raceVars, chunkCall,
                   clientVars>>

\* storage.createUser: the unique constraint on email rejects the insert,
\* which throws into the catch (500)
SignupCreateUser(p) ==
    LET c == signupCalls[p] IN
    /\ c.pc = "hashed"
    /\ IF getUserByEmail(c.email) # Null
       THEN /\ signupCalls' = [signupCalls EXCEPT ![p] = [c EXCEPT !.pc = "done", !.code = 500]]
            /\ userRows' = userRows
       ELSE /\ userRows' = Append(userRows, [email |-> c.email, name |-> "name",
                                             phone |-> NullValue, role |-> c.kind])
            /\ signupCalls' = [signupCalls EXCEPT ![p] =
                                  [c EXCEPT !.pc = "userCreated", !.user = Len(userRows) + 1]]
    /\ UNCHANGED <<session, doctorRequests, patientCases, now, granted, resp, diagIn,
                   diagOut, patientRows, doctorRows, raceVars, chunkCall, clientVars>>

\* storage.createPatient / createDoctor, then the session and the response;
\* a rejected insert throws into the catch (500)
SignupCreateProfile(p) ==
    LET c == signupCalls[p] IN
    /\ c.pc = "userCreated"
    /\ IF ~c.profileOk
       THEN /\ signupCalls' = [signupCalls EXCEPT ![p] = [c EXCEPT !.pc = "done", !.code = 500]]
            /\ UNCHANGED <<patientRows, doctorRows, session>>
       ELSE /\ patientRows' = IF c.kind = "patient"
                              THEN Append(patientRows, [userId |-> c.user, address |-> NullValue])
                              ELSE patientRows
            /\ doctorRows' = IF c.kind = "doctor"
                             THEN Append(doctorRows, [userId |-> c.user,
                                                      specialization |-> NullValue])
                             ELSE doctorRows
            /\ session' = [session EXCEPT ![p] = [userId |-> c.user, role |-> c.kind]]
            /\ signupCalls' = [signupCalls EXCEPT ![p] = [c EXCEPT !.pc = "done", !.code = 200]]
    /\ UNCHANGED <<doctorRequests, patientCases, now, granted, resp, diagIn, diagOut,
                   userRows, raceVars, chunkCall, clientVars>>

(***************************************************************************)
(* PATCH /api/doctor-requests/:id and GET /api/patient/requests, one       *)
(* database statement per step                                             *)
(*                                                                         *)
(* Every call names request 1.  The PATCH calls come from the one doctor   *)
(* session, the reads from the patient of the request.                     *)
(***************************************************************************)
PatchCallIds == {1, 2}
ReadIds == {1, 2}
RaceRequest == 1

NoPatchCall == [pc |-> "none"]

\* the three columns a read of the request returns
shown(row) ==
    [status |-> row.status, scheduleNote |-> row.scheduleNote,
     proposedSlot |-> row.proposedSlot]

NoRead == [pc |-> "none"]

\* requireRole("doctor"), then storage.getDoctorRequestById
PatchReadRequest(c, body) ==
    LET mw == requireRole(1, "doctor") IN
    /\ patchCalls[c].pc = "none"
    /\ patchCalls' = [patchCalls EXCEPT ![c] =
          IF mw # 0 THEN [pc |-> "done", body |-> body, code |-> mw, wrote |-> None]
          ELSE IF getDoctorRequestById(RaceRequest) = Null
          THEN [pc |-> "done", body |-> body, code |-> 404, wrote |-> None]
          ELSE [pc |-> "readDoctor", body |-> body, code |-> 0, wrote |-> None]]
    /\ UNCHANGED <<session, doctorRequests, patientCases, now, granted, resp, diagIn,
                   diagOut, accountVars, readCalls, versions, chunkCall, clientVars>>

\* storage.getDoctorByUserId and the ownership check
PatchReadDoctor(c) ==
    LET doctor == getDoctorByUserId(session[1].userId) IN
    /\ patchCalls[c].pc = "readDoctor"
    /\ patchCalls' = [patchCalls EXCEPT ![c] =
          IF doctor = Null \/ doctorRequests[RaceRequest].doctorId # doctor
          THEN [@ EXCEPT !.pc = "done", !.code = 403]
          ELSE [@ EXCEPT !.pc = "write"]]
    /\ UNCHANGED <<session, doctorRequests, patientCases, now, granted, resp, diagIn,
                   diagOut, accountVars, readCalls, versions, chunkCall, clientVars>>

\* storage.updateDoctorRequest, one UPDATE statement, and the response
PatchWrite(c) ==
    LET body == patchCalls[c].body
        rows == updateDoctorRequest(RaceRequest, requestUpdate(body), now + 1)
    IN  /\ patchCalls[c].pc = "write"
        /\ now < MaxTime
        /\ IF body.status = NullValue
           THEN /\ patchCalls' = [patchCalls EXCEPT ![c] = [@ EXCEPT !.pc = "done", !.code = 500]]
                /\ UNCHANGED <<doctorRequests, now, granted, versions>>
           ELSE /\ doctorRequests' = rows
                /\ now' = now + 1
                /\ granted' = IF body.status = "accepted"
                              THEN granted \cup {<<doctorRequests[RaceRequest].doctorId,
                                                   doctorRequests[RaceRequest].patientId>>}
                              ELSE granted
                /\ versions' = Append(versions, shown(rows[RaceRequest]))
                /\ patchCalls' = [patchCalls EXCEPT ![c] =
                      [@ EXCEPT !.pc = "done", !.code = 200,
                                !.wrote = body.status]]
        /\ UNCHANGED <<session, patientCases, resp, diagIn, diagOut, accountVars, readCalls,
                       chunkCall, clientVars>>

\* the read arrives: the statuses set by the updates that have completed
\* (an update without a status key sets none), and the number of versions
\* the row has had, are noted
ReadBegin(r) ==
    /\ readCalls[r].pc = "none"
    /\ readCalls' = [readCalls EXCEPT ![r] =
          [pc |-> "select",
           completed |-> {patchCalls[c].wrote :
                            c \in {x \in PatchCallIds :
                                      /\ patchCalls[x].pc = "done"
                                      /\ patchCalls[x].code = 200
                                      /\ patchCalls[x].wrote # Undefined}},
           since |-> Len(versions)]]
    /\ UNCHANGED <<session, doctorRequests, patientCases, now, granted, resp, diagIn,
                   diagOut, accountVars, patchCalls, versions, chunkCall, clientVars>>

\* storage.getDoctorRequestsByPatient, one SELECT statement
ReadSelect(r) ==
    /\ readCalls[r].pc = "select"
    /\ readCalls' = [readCalls EXCEPT ![r] =
          [pc |-> "done", completed |-> @.completed, since |-> @.since,
           result |-> shown(doctorRequests[RaceRequest])]]
    /\ UNCHANGED <<session, doctorRequests, patientCases, now, granted, resp, diagIn,
                   diagOut, accountVars, patchCalls, versions, chunkCall, clientVars>>

(***************************************************************************)
(* client: the auth store, initializeAuth and ProtectedRoute               *)
(***************************************************************************)
InitCallIds == 1 .. MaxInitCalls
NoUser == "null"
\* the routes App wraps in a ProtectedRoute, by their allowedRoles
Routes == {"patient", "doctor"}
allowedRoles(route) == {route}

NoInitCall == [pc |-> "none"]

\* set({ user, isLoading: false })
setUser(user) == [user |-> user, isLoading |-> FALSE]

\* ProtectedRoute without the isLoading branch
routeOutput_noLoader(route) ==
    IF auth.user = NoUser THEN "nothing"
    ELSE IF auth.user \notin allowedRoles(route) THEN "nothing"
    ELSE "children"

\* what ProtectedRoute returns; a user is named by its role
routeOutput(route) ==
    IF auth.isLoading THEN "loader"
    ELSE IF auth.user = NoUser THEN "nothing"
    ELSE IF auth.user \notin allowedRoles(route) THEN "nothing"
    ELSE "children"

\* initializeAuth up to its first await: setLoading(true), fetch
InitializeAuth(i) ==
    /\ initCalls[i].pc = "none"
    /\ auth' = [auth EXCEPT !.isLoading = TRUE]
    /\ initCalls' = [initCalls EXCEPT ![i] = [@ EXCEPT !.pc = "fetch"]]
    /\ UNCHANGED <<session, doctorRequests, patientCases, now, granted, resp, diagIn,
                   diagOut, accountVars, raceVars, chunkCall, view>>

\* the fetch settles: response.ok with the session's user in the body, a
\* status that is not ok, or a rejection; the last two end in setUser(null)
\* and the finally block
FetchSettles(i, outcome, user) ==
    /\ initCalls[i].pc = "fetch"
    /\ IF outcome = "ok"
       THEN /\ initCalls' = [initCalls EXCEPT ![i] = [pc |-> "json", data |-> user]]
            /\ auth' = auth
       ELSE /\ initCalls' = [initCalls EXCEPT ![i] = [@ EXCEPT !.pc = "done"]]
            /\ auth' = [setUser(NoUser) EXCEPT !.isLoading = FALSE]
    /\ UNCHANGED <<session, doctorRequests, patientCases, now, granted, resp, diagIn,
                   diagOut, accountVars, raceVars, chunkCall, view>>

\* response.json() settles: setUser(data.user), or setUser(null) in the
\* catch, then the finally block
JsonSettles(i, parsed) ==
    /\ initCalls[i].pc = "json"
    /\ initCalls' = [initCalls EXCEPT ![i] = [@ EXCEPT !.pc = "done"]]
    /\ auth' = [setUser(IF parsed THEN initCalls[i].data ELSE NoUser)
                  EXCEPT !.isLoading = FALSE]
    /\ UNCHANGED <<session, doctorRequests, patientCases, now, granted, resp, diagIn,
                   diagOut, accountVars, raceVars, chunkCall, view>>

\* the login and signup pages: setUser(data.user)
SetUser(user) ==
    /\ auth' = setUser(user)
    /\ UNCHANGED <<session, doctorRequests, patientCases, now, granted, resp, diagIn,
                   diagOut, accountVars, raceVars, chunkCall, initCalls, view>>

\* the store's logout: set({ user: null, isLoading: false })
ClientLogout ==
    /\ auth' = [user |-> NoUser, isLoading |-> FALSE]
    /\ UNCHANGED <<session, doctorRequests, patientCases, now, granted, resp, diagIn,
                   diagOut, accountVars, raceVars, chunkCall, initCalls, view>>

\* React renders the ProtectedRoute of a route
Render(route) ==
    /\ view' = [view EXCEPT ![route] = routeOutput(route)]
    /\ UNCHANGED <<session, doctorRequests, patientCases, now, granted, resp, diagIn,
                   diagOut, accountVars, raceVars, chunkCall, auth, initCalls>>

(***************************************************************************)
(* chunkText(text, chunkSize, overlap)                                     *)
(*                                                                         *)
(* The text is carried by its length; a chunk text.slice(start, end) is    *)
(* the pair <<start, end>>.  One action is one pass of the while loop.     *)
(***************************************************************************)
NoChunkCall == [pc |-> "none"]

\* the next start without the overlap taken off
nextStart_noOverlap(end, overlap) == end

\* start = end - overlap
nextStart(end, overlap) == end - overlap

\* if (start + overlap >= text.length) break
chunkBreak(start, overlap, length) == start + overlap >= length

\* one pass of the loop body, entered with start < text.length
ChunkLoop ==
    LET c == chunkCall
        end == Min(c.start + c.chunkSize, c.length)
        start == nextStart(end, c.overlap)
    IN  /\ c.pc = "loop"
        /\ c.start < c.length
        /\ chunkCall' = [c EXCEPT !.chunks = Append(@, <<c.start, end>>),
                                  !.start = start,
                                  !.pc = IF chunkBreak(start, c.overlap, c.length)
                                         THEN "returned" ELSE "loop"]
        /\ UNCHANGED <<session, doctorRequests, patientCases, now, granted, resp,
                       diagIn, diagOut, accountVars, raceVars, clientVars>>

\* the loop condition fails: return chunks
ChunkExit ==
    /\ chunkCall.pc = "loop"
    /\ ~(chunkCall.start < chunkCall.length)
    /\ chunkCall' = [chunkCall EXCEPT !.pc = "returned"]
    /\ UNCHANGED <<session, doctorRequests, patientCases, now, granted, resp,
                   diagIn, diagOut, accountVars, raceVars, clientVars>>

(***************************************************************************)
(* Specifications                                                          *)
(***************************************************************************)
BodyIds == 1 .. (MaxRequests + 1)
CaseIds == 1 .. (MaxCases + 1)
\* the dashboard sends scheduleNote and proposedSlot together; a body may
\* also carry neither
\* and further keys the handler does not destructure: none, or patientId,
\* doctorId and note together
PatchBodies ==
    {[status |-> st, scheduleNote |-> n[1], proposedSlot |-> n[2],
      patientId |-> x[1], doctorId |-> x[2], note |-> x[3]] :
        st \in BodyStatus, n \in {<<Undefined, Undefined>>, <<"note", "slot">>},
        x \in {<<Null, Null, Undefined>>, <<2, 2, "changed">>}}

\* bodies of POST /api/doctor-requests: a request to doctor 1 names hospital
\* 1 and carries a note and a shared file, a request to any other doctor
\* leaves the three out; the keys the handler does not destructure,
\* patientId and status, are left out or name a patient and "accepted"
PostBodies ==
    {[doctorId |-> d,
      hospitalId |-> IF d = 1 THEN 1 ELSE Null,
      note |-> IF d = 1 THEN "symptoms" ELSE Undefined,
      dataShare |-> IF d = 1 THEN "file" ELSE Undefined,
      patientId |-> f[1], status |-> f[2]] :
        d \in DoctorIds \cup {MissingId},
        f \in {<<Null, Undefined>>} \cup {<<p, "accepted">> : p \in PatientIds}}

\* tumor sizes in tenths of a centimetre: 0 (rejected by the schema), 0.1 and
\* every half centimetre up to MaxTumorSize
TumorSizes == {0, 1} \cup {5 * k : k \in 1 .. (2 * MaxTumorSize)}
\* biomarker1 in tenths, on both sides of every threshold of the three
\* tables, and a value that is no number
Biomarkers == {NotANumber, -10, 0, 30, 50, 51, 100, 101, 200, 201, 300, 301, 1000, 1001,
               1500, 4000, 4001, 5000}
DiagnosisBodies ==
    [cancerType : CancerTypes \cup {"colon"}, tumorSize : TumorSizes,
     biomarker1 : Biomarkers,
     biomarker2 : {Undefined, NullValue, "positive", "negative"},
     additionalFactor : {Undefined, "current", "former", "never"}]

\* status-changing and note-only bodies of the interleaved PATCH calls
RaceBodies ==
    {b \in PatchBodies : b.status \in {"accepted", "declined", Undefined} /\ b.patientId = Null}

\* the account tables after the four signups, no signup in flight
AccountsIdle ==
    /\ userRows = SignedUpUsers
    /\ patientRows = SignedUpPatients
    /\ doctorRows = SignedUpDoctors
    /\ signupCalls = [p \in SignupIds |-> NoSignupCall]

\* no PATCH and no read of a request in flight
RaceIdle ==
    /\ patchCalls = [c \in PatchCallIds |-> NoPatchCall]
    /\ readCalls = [r \in ReadIds |-> NoRead]
    /\ versions = <<>>

\* the auth store as create() leaves it, nothing mounted
ClientIdle ==
    /\ auth = [user |-> NoUser, isLoading |-> TRUE]
    /\ initCalls = [i \in InitCallIds |-> NoInitCall]
    /\ view = [r \in Routes |-> "unmounted"]

NothingElseRunning ==
    /\ AccountsIdle
    /\ RaceIdle
    /\ chunkCall = NoChunkCall
    /\ ClientIdle

\* no session, empty request and case tables, no call made
ServerIdle ==
    /\ session = [s \in SessionIds |-> NoSession]
    /\ doctorRequests = <<>>
    /\ patientCases = <<>>
    /\ now = 0
    /\ granted = {}
    /\ resp = NoResp
    /\ diagIn = NoBody
    /\ diagOut = NoDiag

\* the database after the four signups, nobody logged in
Init ==
    /\ session = [s \in SessionIds |-> NoSession]
    /\ doctorRequests = <<>>
    /\ patientCases = <<>>
    /\ now = 0
    /\ granted = {}
    /\ resp = NoResp
    /\ diagIn = NoBody
    /\ diagOut = NoDiag
    /\ NothingElseRunning

Next ==
    \/ \E s \in SessionIds, u \in UserIds \cup {MissingId}, ok \in BOOLEAN : Login(s, u, ok)
    \/ \E s \in SessionIds : Logout(s)
    \/ \E s \in SessionIds, body \in PostBodies : PostDoctorRequest(s, body)
    \/ \E s \in SessionIds, id \in BodyIds, body \in PatchBodies : PatchDoctorRequest(s, id, body)
    \/ \E s \in SessionIds, id \in PatientIds \cup {MissingId} : GetPatient(s, id)
    \/ Receive

\* the doctor-request workflow and the patient read it gates: every route
\* that reads or writes doctor_requests
Spec == Init /\ [][Next]_vars

\* doctor_requests as the workflow can leave it with at most one row: a
\* request of patient p to doctor d, pending or answered once with status st
requestRow(p, d, st) ==
    [patientId |-> p, doctorId |-> d, hospitalId |-> Null, note |-> NullValue,
     dataShare |-> NullValue, status |-> st, scheduleNote |-> NullValue,
     proposedSlot |-> NullValue, createdAt |-> 1,
     updatedAt |-> IF st = "pending" THEN 1 ELSE 2]

InitCases ==
    /\ session = [s \in SessionIds |-> NoSession]
    /\ \/ doctorRequests = <<>> /\ now = 0 /\ granted = {}
       \/ \E p \in PatientIds, d \in DoctorIds, st \in StatusEnum \cup {"approved"} :
             /\ doctorRequests = <<requestRow(p, d, st)>>
             /\ now = IF st = "pending" THEN 1 ELSE 2
             /\ granted = IF st = "accepted" THEN {<<d, p>>} ELSE {}
    /\ patientCases = <<>>
    /\ resp = NoResp
    /\ diagIn = NoBody
    /\ diagOut = NoDiag
    /\ NothingElseRunning

NextCases ==
    \/ \E s \in SessionIds, u \in UserIds \cup {MissingId}, ok \in BOOLEAN : Login(s, u, ok)
    \/ \E s \in SessionIds : Logout(s)
    \/ \E s \in SessionIds, p \in PatientIds \cup {MissingId} : PostCase(s, p)
    \/ \E s \in SessionIds, id \in CaseIds : GetCase(s, id)
    \/ \E s \in SessionIds, id \in CaseIds : GetCasePdf(s, id)
    \/ \E s \in SessionIds, id \in CaseIds, ok \in BOOLEAN : GenerateTreatment(s, id, ok)
    \/ \E s \in SessionIds, id \in PatientIds \cup {MissingId} : GetPatient(s, id)
    \/ Receive

\* the patient-case routes: every route that reads or writes patient_cases
\* and decides a case read, and the patient profile read; none of them
\* writes doctor_requests
SpecCases == InitCases /\ [][NextCases]_vars

\* one diagnosis call: the caller's session and the body are drawn at the
\* start, the handler runs once
InitRisk ==
    /\ session \in [SessionIds -> {NoSession, [userId |-> 1, role |-> "patient"],
                                   [userId |-> 3, role |-> "doctor"]}]
    /\ doctorRequests = <<>>
    /\ patientCases = <<>>
    /\ now = 0
    /\ granted = {}
    /\ resp = NoResp
    /\ diagIn \in DiagnosisBodies
    /\ diagOut = NoDiag
    /\ NothingElseRunning

NextRisk == \E s \in SessionIds : Calculate(s)

SpecRisk == InitRisk /\ [][NextRisk]_vars

\* chunkText called once, arguments drawn with 0 <= overlap < chunkSize;
\* the loop runs without waiting for anything
InitChunk ==
    /\ ServerIdle
    /\ AccountsIdle
    /\ RaceIdle
    /\ ClientIdle
    /\ chunkCall \in {[length |-> n, chunkSize |-> c, overlap |-> o, start |-> 0,
                        chunks |-> <<>>, pc |-> "loop"] :
                          n \in 0 .. MaxTextLength, c \in 1 .. MaxChunkSize,
                          o \in 0 .. (MaxChunkSize - 1)}
    /\ chunkCall.overlap < chunkCall.chunkSize

NextChunk == ChunkLoop \/ ChunkExit

SpecChunk == InitChunk /\ [][NextChunk]_vars /\ WF_vars(NextChunk)

\* diagnosis calls with one body among the other routes
PureBodies ==
    {b \in DiagnosisBodies :
        /\ b.tumorSize \in {0, 10 * MaxTumorSize}
        /\ b.biomarker1 \in {30, 5000}
        /\ b.biomarker2 = "positive"
        /\ b.additionalFactor = "current"
        /\ b.cancerType \in {"liver", "breast"}}

InitPure ==
    /\ session = [s \in SessionIds |-> NoSession]
    /\ doctorRequests = <<>>
    /\ patientCases = <<>>
    /\ now = 0
    /\ granted = {}
    /\ resp = NoResp
    /\ diagIn \in PureBodies
    /\ diagOut = NoDiag
    /\ NothingElseRunning

NextPure ==
    \/ \E s \in SessionIds, u \in UserIds \cup {MissingId}, ok \in BOOLEAN : Login(s, u, ok)
    \/ \E s \in SessionIds : Logout(s)
    \/ \E s \in SessionIds, body \in PostBodies : PostDoctorRequest(s, body)
    \/ \E s \in SessionIds : Calculate(s)
    \/ \E s \in SessionIds : CalculateAgain(s)
    \/ Receive

SpecPure == InitPure /\ [][NextPure]_vars

\* the two profile PATCH routes
InitProfiles ==
    /\ ServerIdle
    /\ NothingElseRunning

NextProfiles ==
    \/ \E s \in SessionIds, u \in UserIds \cup {MissingId}, ok \in BOOLEAN : Login(s, u, ok)
    \/ \E s \in SessionIds : Logout(s)
    \/ \E s \in SessionIds, id \in PatientIds \cup {MissingId}, body \in ProfileBodies :
          PatchPatient(s, id, body)
    \/ \E s \in SessionIds, id \in DoctorIds \cup {MissingId}, body \in ProfileBodies :
          PatchDoctor(s, id, body)
    \/ Receive

SpecProfiles == InitProfiles /\ [][NextProfiles]_vars

\* signups into empty tables, each in a fresh session
InitSignup ==
    /\ session = [p \in SignupIds |-> NoSession]
    /\ doctorRequests = <<>>
    /\ patientCases = <<>>
    /\ now = 0
    /\ granted = {}
    /\ resp = NoResp
    /\ diagIn = NoBody
    /\ diagOut = NoDiag
    /\ userRows = <<>>
    /\ patientRows = <<>>
    /\ doctorRows = <<>>
    /\ signupCalls = [p \in SignupIds |-> NoSignupCall]
    /\ RaceIdle
    /\ chunkCall = NoChunkCall
    /\ ClientIdle

NextSignup ==
    \/ \E p \in SignupIds, kind \in {"patient", "doctor"}, email \in Emails,
          profileOk \in BOOLEAN : SignupCheck(p, kind, email, profileOk)
    \/ \E p \in SignupIds : SignupCreateUser(p)
    \/ \E p \in SignupIds : SignupCreateProfile(p)

SpecSignup == InitSignup /\ [][NextSignup]_vars

\* a pending request of patient 1 to doctor 1 and a doctor logged in
InitRace ==
    /\ session \in [SessionIds -> {[userId |-> doctors[d].userId, role |-> "doctor"] :
                                      d \in DoctorIds}]
    /\ doctorRequests = <<requestRow(1, 1, "pending")>>
    /\ patientCases = <<>>
    /\ now = 1
    /\ granted = {}
    /\ resp = NoResp
    /\ diagIn = NoBody
    /\ diagOut = NoDiag
    /\ AccountsIdle
    /\ patchCalls = [c \in PatchCallIds |-> NoPatchCall]
    /\ readCalls = [r \in ReadIds |-> NoRead]
    /\ versions = <<shown(requestRow(1, 1, "pending"))>>
    /\ chunkCall = NoChunkCall
    /\ ClientIdle

NextRace ==
    \/ \E c \in PatchCallIds, body \in RaceBodies : PatchReadRequest(c, body)
    \/ \E c \in PatchCallIds : PatchReadDoctor(c)
    \/ \E c \in PatchCallIds : PatchWrite(c)
    \/ \E r \in ReadIds : ReadBegin(r)
    \/ \E r \in ReadIds : ReadSelect(r)

SpecRace == InitRace /\ [][NextRace]_vars

\* the client alone: the pages call setUser and logout at any time, React
\* renders at any time, and a started fetch or json() settles
InitClient ==
    /\ ServerIdle
    /\ AccountsIdle
    /\ RaceIdle
    /\ chunkCall = NoChunkCall
    /\ ClientIdle

NextClient ==
    \/ \E i \in InitCallIds : InitializeAuth(i)
    \/ \E i \in InitCallIds, outcome \in {"ok", "notOk", "rejected"},
          user \in {NoUser, "patient", "doctor"} : FetchSettles(i, outcome, user)
    \/ \E i \in InitCallIds, parsed \in BOOLEAN : JsonSettles(i, parsed)
    \/ \E user \in {"patient", "doctor"} : SetUser(user)
    \/ ClientLogout
    \/ \E route \in Routes : Render(route)

Settles(i) ==
    \/ \E outcome \in {"ok", "notOk", "rejected"}, user \in {NoUser, "patient", "doctor"} :
          FetchSettles(i, outcome, user)
    \/ \E parsed \in BOOLEAN : JsonSettles(i, parsed)

SpecClient == InitClient /\ [][NextClient]_vars /\ \A i \in InitCallIds : WF_vars(Settles(i))

(***************************************************************************)
(* Properties                                                              *)
(***************************************************************************)
\* the doctor row of the session a response answers
doctorOf(s) == getDoctorByUserId(session[s].userId)

\* the access predicate of the specification: some request of patient p to
\* doctor d has status accepted
canDoctorAccessPatientCase(d, p) ==
    \E r \in DOMAIN doctorRequests :
        /\ doctorRequests[r].doctorId = d
        /\ doctorRequests[r].patientId = p
        /\ doctorRequests[r].status = "accepted"

\* the response answers a doctor-role session's GET /api/patients/:id
DoctorReadsPatient ==
    /\ resp.op = "getPatient"
    /\ session[resp.sid].role = "doctor"

\* the response answers a doctor-role session's read of an existing case
DoctorReadsCase ==
    /\ resp.op \in {"getCase", "getCasePdf"}
    /\ session[resp.sid].role = "doctor"
    /\ resp.id \in DOMAIN patientCases

\* the response answers a PATCH by a doctor who is not the doctor of the
\* request it names
NonOwnerPatch ==
    /\ resp.op = "patchDoctorRequest"
    /\ session[resp.sid].role = "doctor"
    /\ resp.id \in DOMAIN doctorRequests
    /\ doctorRequests[resp.id].doctorId # doctorOf(resp.sid)

\* C1: a doctor's read of patient p through GET /api/patients/:id succeeds
\* only if some request of p to that doctor has status accepted.
C1_ReadOnlyIfAccepted ==
    (DoctorReadsPatient /\ resp.code = 200)
        => canDoctorAccessPatientCase(doctorOf(resp.sid), resp.id)

\* C2: once the addressed doctor has moved a request of patient p to
\* accepted, every later read of p by that doctor through
\* GET /api/patients/:id succeeds.
C2_ReadAfterAccept ==
    (DoctorReadsPatient /\ <<doctorOf(resp.sid), resp.id>> \in granted)
        => resp.code = 200

C4_ForeignPatchRejected ==
    [][NonOwnerPatch' => (resp'.code = 403 /\ doctorRequests' = doctorRequests)]_vars

\* a doctor was refused a PATCH on a pending request addressed to the other
\* doctor
C4_Witness ==
    /\ NonOwnerPatch
    /\ resp.code = 403
    /\ doctorRequests[resp.id].status = "pending"

\* C5: every status change of a request starts from pending and ends in
\* accepted, declined or reschedule (so a request changes status at most
\* once and never returns to pending).
C5_OnlyFromPending ==
    [][\A r \in DOMAIN doctorRequests :
          doctorRequests'[r].status # doctorRequests[r].status =>
              /\ doctorRequests[r].status = "pending"
              /\ doctorRequests'[r].status \in {"accepted", "declined", "reschedule"}]_vars

\* C6: once a request between doctor d and patient p is accepted, the
\* access predicate for (d, p) stays true in every later state.
C6_AccessPermanent ==
    [][\A d \in DoctorIds, p \in PatientIds :
          canDoctorAccessPatientCase(d, p) => canDoctorAccessPatientCase(d, p)']_vars

\* C7: the status of every stored request is one of pending, accepted,
\* declined, reschedule.
C7_StatusInEnum ==
    \A r \in DOMAIN doctorRequests : doctorRequests[r].status \in StatusEnum

\* the response answers a doctor's diagnosis call whose body has one of the
\* three cancer types, a positive tumor size and a numeric biomarker1
ValidDiagnosisCall ==
    /\ resp.op = "calculate"
    /\ session[resp.sid].role = "doctor"
    /\ diagIn.cancerType \in {"liver", "lung", "breast"}
    /\ diagIn.tumorSize > 0
    /\ diagIn.biomarker1 # NotANumber

\* C8: for every valid input the calculation returns a result, and its
\* probability is an integer from 0 to 98.
C8_ProbabilityInRange ==
    ValidDiagnosisCall =>
        /\ diagOut.code = 200
        /\ diagOut.probability \in 0 .. 98

\* a valid call whose raw score is above 98 and is reported as 98
C8_Witness ==
    /\ ValidDiagnosisCall
    /\ diagOut.code = 200
    /\ diagOut.raw > 9800
    /\ diagOut.probability = 98

\* C9: the risk level is High exactly when probability >= 70, Moderate
\* exactly when 40 <= probability < 70, Low exactly when probability < 40.
C9_TierMatchesProbability ==
    ValidDiagnosisCall =>
        /\ (diagOut.riskLevel = "High") <=> (diagOut.probability >= 70)
        /\ (diagOut.riskLevel = "Moderate")
              <=> (diagOut.probability >= 40 /\ diagOut.probability < 70)
        /\ (diagOut.riskLevel = "Low") <=> (diagOut.probability < 40)

\* a valid call reported with probability exactly 70 and level High
C9_Witness ==
    /\ ValidDiagnosisCall
    /\ diagOut.probability = 70
    /\ diagOut.riskLevel = "High"

\* the liver table of the specification, in hundredths, for tumorSize and
\* biomarker1 in tenths
LiverExpected(tumorSize, afp) ==
    IF afp > 4000 THEN 7500 + Min(30 * tumorSize, 2000)
    ELSE IF afp > 200 THEN 4500 + Min(20 * tumorSize, 2500)
    ELSE 1500 + Min(10 * tumorSize, 1500)

\* C10: for liver the raw score is 75 + min(3*tumorSize, 20) when AFP > 400,
\* 45 + min(2*tumorSize, 25) when 20 < AFP <= 400 and 15 + min(tumorSize, 15)
\* when AFP <= 20, whatever biomarker2 and additionalFactor are; AFP = 500
\* with tumorSize = 5 gives 90, High.
C10_LiverScore ==
    (ValidDiagnosisCall /\ diagIn.cancerType = "liver") =>
        /\ diagOut.raw = LiverExpected(diagIn.tumorSize, diagIn.biomarker1)
        /\ (diagIn.biomarker1 = 5000 /\ diagIn.tumorSize = 50) =>
              (diagOut.probability = 90 /\ diagOut.riskLevel = "High")

\* a liver call with AFP exactly 400, scored in the middle band, with both
\* optional strings set
C10_Witness ==
    /\ ValidDiagnosisCall
    /\ diagIn.cancerType = "liver"
    /\ diagIn.biomarker1 = 4000
    /\ diagIn.tumorSize = 50
    /\ diagIn.biomarker2 = "positive"
    /\ diagIn.additionalFactor = "current"
    /\ diagOut.raw = 5500

\* the lung table of the specification, in hundredths: the base by CEA band
\* and the smoking multiplier in tenths
LungBase(tumorSize, cea) ==
    IF cea > 100 THEN 600 + Min(4 * tumorSize, 250)
    ELSE IF cea > 50 THEN 350 + Min(3 * tumorSize, 200)
    ELSE 100 + Min(2 * tumorSize, 150)

LungMultiplier(additionalFactor) ==
    IF additionalFactor = "current" THEN 18
    ELSE IF additionalFactor = "former" THEN 13
    ELSE 10

\* C11: for lung the raw score is base * m, with m = 1.8 for additionalFactor
\* "current", 1.3 for "former" and 1.0 for every other value or none, and
\* base = 60 + min(4*tumorSize, 25) when CEA > 10, 35 + min(3*tumorSize, 20)
\* when 5 < CEA <= 10, 10 + min(2*tumorSize, 15) when CEA <= 5; biomarker2
\* has no effect; CEA = 3, tumorSize = 1, "current" gives 21.6, reported as
\* 22, Low.
C11_LungScore ==
    (ValidDiagnosisCall /\ diagIn.cancerType = "lung") =>
        /\ diagOut.raw = LungBase(diagIn.tumorSize, diagIn.biomarker1)
                            * LungMultiplier(diagIn.additionalFactor)
        /\ (diagIn.biomarker1 = 30 /\ diagIn.tumorSize = 10
              /\ diagIn.additionalFactor = "current") =>
              (diagOut.raw = 2160 /\ diagOut.probability = 22
               /\ diagOut.riskLevel = "Low")

\* a lung call of a former smoker with CEA exactly 10, scored in the middle
\* band, with biomarker2 set
C11_Witness ==
    /\ ValidDiagnosisCall
    /\ diagIn.cancerType = "lung"
    /\ diagIn.biomarker1 = 100
    /\ diagIn.tumorSize = 50
    /\ diagIn.additionalFactor = "former"
    /\ diagIn.biomarker2 = "positive"
    /\ diagOut.raw = 6500

\* the breast table of the specification, in hundredths
BreastBase(tumorSize, ca153) ==
    IF ca153 > 1000 THEN 700 + Min(3 * tumorSize, 200)
    ELSE IF ca153 > 300 THEN 400 + Min(2 * tumorSize, 250)
    ELSE 120 + Min(tumorSize, 150)

\* C12: for breast the raw score is base * m, with m = 1.4 when biomarker2 is
\* exactly "positive" and 1.0 for every other value or none, and base =
\* 70 + min(3*tumorSize, 20) when CA15-3 > 100, 40 + min(2*tumorSize, 25)
\* when 30 < CA15-3 <= 100, 12 + min(tumorSize, 15) when CA15-3 <= 30;
\* additionalFactor has no effect; CA15-3 = 20, tumorSize = 2 and no
\* biomarker2 gives 14, Low.
C12_BreastScore ==
    (ValidDiagnosisCall /\ diagIn.cancerType = "breast") =>
        /\ diagOut.raw = BreastBase(diagIn.tumorSize, diagIn.biomarker1)
                            * (IF diagIn.biomarker2 = "positive" THEN 14 ELSE 10)
        /\ (diagIn.biomarker1 = 200 /\ diagIn.tumorSize = 20
              /\ diagIn.biomarker2 = Undefined) =>
              (diagOut.probability = 14 /\ diagOut.riskLevel = "Low")

\* a breast call with biomarker2 "negative" and CA15-3 exactly 100, scored
\* in the middle band without the multiplier, with additionalFactor set
C12_Witness ==
    /\ ValidDiagnosisCall
    /\ diagIn.cancerType = "breast"
    /\ diagIn.biomarker1 = 1000
    /\ diagIn.tumorSize = 50
    /\ diagIn.biomarker2 = "negative"
    /\ diagIn.additionalFactor = "current"
    /\ diagOut.raw = 5000

\* C13: the reported probability is the raw score rounded to a nearest
\* integer and then capped at 98 (raw 21.6 gives 22, raw 114.8 gives 98), and
\* the risk level is decided by that reported value, not by the raw score.
C13_RoundThenCap ==
    ValidDiagnosisCall =>
        /\ diagOut.raw >= 9750 => diagOut.probability = 98
        /\ diagOut.raw < 9750 =>
              /\ 100 * diagOut.probability - 50 <= diagOut.raw
              /\ diagOut.raw <= 100 * diagOut.probability + 50
        /\ diagOut.raw = 2160 => diagOut.probability = 22
        /\ diagOut.raw = 11480 => diagOut.probability = 98
        /\ diagOut.riskLevel = (IF diagOut.probability >= 70 THEN "High"
                                ELSE IF diagOut.probability >= 40 THEN "Moderate"
                                ELSE "Low")

\* a call whose raw score 39.5 lies under the Moderate threshold and is
\* reported as 40, Moderate
C13_Witness ==
    /\ ValidDiagnosisCall
    /\ diagOut.raw = 3950
    /\ diagOut.probability = 40
    /\ diagOut.riskLevel = "Moderate"

\* C14: for liver with biomarker1 fixed the probability never decreases as
\* tumorSize grows: the probability a call reports is at least the
\* probability the calculation gives the same body with any smaller
\* positive tumor size.
C14_LiverMonotone ==
    (ValidDiagnosisCall /\ diagIn.cancerType = "liver") =>
        \A s1 \in TumorSizes :
            (0 < s1 /\ s1 <= diagIn.tumorSize) =>
                calculateDiagnosis(resp.sid, [diagIn EXCEPT !.tumorSize = s1]).probability
                    <= diagOut.probability

\* a liver call in the middle band that reports more than the same body
\* with a smaller tumor gets, and as much as it gets with a larger one
\* (the tumor term is capped)
C14_Witness ==
    /\ ValidDiagnosisCall
    /\ diagIn.cancerType = "liver"
    /\ diagIn.biomarker1 = 4000
    /\ diagIn.tumorSize = 125
    /\ diagOut.probability = 70
    /\ calculateDiagnosis(resp.sid, [diagIn EXCEPT !.tumorSize = 50]).probability = 55
    /\ calculateDiagnosis(resp.sid, [diagIn EXCEPT !.tumorSize = 160]).probability = 70

\* a step that appended to doctor_requests
RequestCreated == Len(doctorRequests') > Len(doctorRequests)

\* C15: every DoctorRequest is created with status pending and with the
\* patientId of the patient record of the session that creates it, whatever
\* patientId or status the body carries; only a patient-role session creates
\* one, and so no patient creates a request on behalf of another patient.
C15_CreatedPendingForCaller ==
    [][RequestCreated =>
          LET new == doctorRequests'[Len(doctorRequests')] IN
          /\ Len(doctorRequests') = Len(doctorRequests) + 1
          /\ resp'.op = "postDoctorRequest"
          /\ resp'.code = 200
          /\ session[resp'.sid].role = "patient"
          /\ new.patientId = getPatientByUserId(session[resp'.sid].userId)
          /\ new.status = "pending"]_vars

\* patient 2 has just created the second request, pending and under their
\* own patientId, next to a request of patient 1
C15_Witness ==
    /\ resp.op = "postDoctorRequest"
    /\ resp.code = 200
    /\ resp.id = 2
    /\ session[resp.sid].userId = 2
    /\ doctorRequests[1].patientId = 1
    /\ doctorRequests[2].patientId = 2
    /\ doctorRequests[2].status = "pending"

\* the response answers a PATCH by a session that has no doctor role
NonDoctorPatch ==
    /\ resp.op = "patchDoctorRequest"
    /\ session[resp.sid].role # "doctor"

\* C16: only a doctor-role session whose doctor is the request's doctorId
\* changes a request's status; a PATCH from a patient-role session (the
\* creating patient included) is answered forbidden, one from a session that
\* is not logged in is answered not authenticated, and in both cases the
\* table stays as it was.
C16_OnlyOwningDoctorChangesStatus ==
    [][/\ NonDoctorPatch' =>
             /\ resp'.code = IF session[resp'.sid].userId = Null THEN 401 ELSE 403
             /\ doctorRequests' = doctorRequests
       /\ \A r \in DOMAIN doctorRequests :
             doctorRequests'[r].status # doctorRequests[r].status =>
                 /\ resp'.op = "patchDoctorRequest"
                 /\ resp'.id = r
                 /\ session[resp'.sid].role = "doctor"
                 /\ doctorOf(resp'.sid) = doctorRequests[r].doctorId]_vars

\* the patient who created a pending request was refused a PATCH on it
C16_Witness ==
    /\ NonDoctorPatch
    /\ session[resp.sid].role = "patient"
    /\ resp.id \in DOMAIN doctorRequests
    /\ doctorRequests[resp.id].patientId = getPatientByUserId(session[resp.sid].userId)
    /\ doctorRequests[resp.id].status = "pending"
    /\ resp.code = 403

\* the response answers a PATCH by a doctor-role session
DoctorPatch ==
    /\ resp.op = "patchDoctorRequest"
    /\ session[resp.sid].role = "doctor"

\* C17 as the specification states it: a doctor's PATCH on an id no request
\* has is answered not found and changes nothing, and not found and
\* forbidden are the only error outcomes of a doctor's PATCH.
C17_OnlyNotFoundOrForbidden ==
    [][DoctorPatch' =>
          /\ resp'.id \notin DOMAIN doctorRequests =>
                (resp'.code = 404 /\ doctorRequests' = doctorRequests)
          /\ resp'.code \in {200, 404, 403}]_vars

\* C17 as the route decides it: a doctor's PATCH is answered not found (404)
\* exactly when no request has the id, forbidden (403) exactly when the
\* request exists and belongs to another doctor, and otherwise 200 or, when
\* the update throws, server error (500); every answer other than 200 leaves
\* the table as it was, so not found neither creates nor changes a request.
C17_NotFoundForbiddenOrServerError ==
    [][DoctorPatch' =>
          /\ (resp'.code = 404) <=> (resp'.id \notin DOMAIN doctorRequests)
          /\ (resp'.code = 403) <=>
                /\ resp'.id \in DOMAIN doctorRequests
                /\ doctorRequests[resp'.id].doctorId # doctorOf(resp'.sid)
          /\ resp'.code \in {200, 404, 403, 500}
          /\ resp'.code # 200 => doctorRequests' = doctorRequests]_vars

\* a doctor who owns the one stored request was answered not found for an
\* id past it
C17_Witness ==
    /\ DoctorPatch
    /\ Len(doctorRequests) = 1
    /\ doctorRequests[1].doctorId = doctorOf(resp.sid)
    /\ resp.id = 2
    /\ resp.code = 404

\* C18: every PATCH by the request's doctor ends in an error or in a success
\* after which the stored status is the status the body asked for; none
\* reports success and leaves a status it asked to change unchanged.  (A
\* body without a status key asks for none and the status stays.)
C18_SuccessStoresAskedStatus ==
    [][(/\ resp'.op = "patchDoctorRequest"
        /\ resp'.id \in DOMAIN doctorRequests
        /\ doctorRequests[resp'.id].doctorId = doctorOf(resp'.sid)) =>
          \A body \in PatchBodies :
              PatchDoctorRequest(resp'.sid, resp'.id, body) =>
                  \/ /\ resp'.code \in {401, 403, 404, 500}
                     /\ doctorRequests' = doctorRequests
                  \/ /\ resp'.code = 200
                     /\ doctorRequests'[resp'.id].status =
                           IF body.status = Undefined
                           THEN doctorRequests[resp'.id].status
                           ELSE body.status]_vars

\* the owning doctor's PATCH succeeded and the request, created pending,
\* now stores reschedule with the note and the slot
C18_Witness ==
    /\ DoctorPatch
    /\ resp.code = 200
    /\ doctorRequests[resp.id].doctorId = doctorOf(resp.sid)
    /\ doctorRequests[resp.id].status = "reschedule"
    /\ doctorRequests[resp.id].scheduleNote = "note"
    /\ doctorRequests[resp.id].updatedAt > doctorRequests[resp.id].createdAt

\* C19: doctor_requests is append-only: after every step each earlier
\* request still exists under the same id with the same patientId, doctorId
\* and createdAt, and a create adds exactly one row and changes no other.
C19_AppendOnly ==
    [][/\ Len(doctorRequests') >= Len(doctorRequests)
       /\ \A r \in DOMAIN doctorRequests :
             /\ doctorRequests'[r].patientId = doctorRequests[r].patientId
             /\ doctorRequests'[r].doctorId = doctorRequests[r].doctorId
             /\ doctorRequests'[r].createdAt = doctorRequests[r].createdAt
       /\ (resp'.op = "postDoctorRequest" /\ resp'.code = 200) =>
             /\ Len(doctorRequests') = Len(doctorRequests) + 1
             /\ \A r \in DOMAIN doctorRequests : doctorRequests'[r] = doctorRequests[r]]_vars

\* a second request was created after the first one had been answered, and
\* the first is still there
C19_Witness ==
    /\ resp.op = "postDoctorRequest"
    /\ resp.code = 200
    /\ resp.id = 2
    /\ doctorRequests[1].status = "accepted"
    /\ doctorRequests[1].createdAt = 1
    /\ doctorRequests[2].createdAt = 3

\* C20: a successful update changes only that request's status,
\* scheduleNote, proposedSlot and updatedAt: its patientId, doctorId,
\* hospitalId, note, dataShare and createdAt stay, and so does every other
\* request, whatever further keys the body carries.
C20_UpdateFrame ==
    [][(resp'.op = "patchDoctorRequest" /\ resp'.code = 200) =>
          /\ DOMAIN doctorRequests' = DOMAIN doctorRequests
          /\ \A r \in DOMAIN doctorRequests :
                IF r = resp'.id
                THEN /\ doctorRequests'[r].patientId = doctorRequests[r].patientId
                     /\ doctorRequests'[r].doctorId = doctorRequests[r].doctorId
                     /\ doctorRequests'[r].hospitalId = doctorRequests[r].hospitalId
                     /\ doctorRequests'[r].note = doctorRequests[r].note
                     /\ doctorRequests'[r].dataShare = doctorRequests[r].dataShare
                     /\ doctorRequests'[r].createdAt = doctorRequests[r].createdAt
                ELSE doctorRequests'[r] = doctorRequests[r]]_vars

\* doctor 1 accepted the first of two requests; it still carries the
\* patient's hospital, note and file, and the other request is pending
C20_Witness ==
    /\ resp.op = "patchDoctorRequest"
    /\ resp.code = 200
    /\ resp.id = 1
    /\ Len(doctorRequests) = 2
    /\ doctorRequests[1].status = "accepted"
    /\ doctorRequests[1].scheduleNote = "note"
    /\ doctorRequests[1].hospitalId = 1
    /\ doctorRequests[1].note = "symptoms"
    /\ doctorRequests[1].dataShare = "file"
    /\ doctorRequests[1].createdAt = 1
    /\ doctorRequests[1].updatedAt = 3
    /\ doctorRequests[2].status = "pending"

\* the body of the diagnosis call fails one of the three input conditions
InvalidDiagnosisBody ==
    \/ diagIn.cancerType \notin {"liver", "lung", "breast"}
    \/ diagIn.tumorSize <= 0
    \/ diagIn.biomarker1 = NotANumber

\* C23: a diagnosis call whose cancerType is not liver, lung or breast, whose
\* tumorSize is not greater than 0 or whose biomarker1 is not a number ends
\* in an error (401, 403 or 500) and its response carries no probability,
\* risk level or recommendation: the scoring is never reached.
C23_InvalidInputIsAnError ==
    (resp.op = "calculate" /\ InvalidDiagnosisBody) =>
        /\ diagOut.code \in {401, 403, 500}
        /\ diagOut = diagnosisError(diagOut.code)

\* a doctor's call with a valid cancer type and tumor size whose biomarker1
\* is not a number was answered 500
C23_Witness ==
    /\ resp.op = "calculate"
    /\ session[resp.sid].role = "doctor"
    /\ diagIn.cancerType = "lung"
    /\ diagIn.tumorSize = 50
    /\ diagIn.biomarker1 = NotANumber
    /\ diagOut.code = 500

\* the recommendation the specification gives a risk level and a cancer
\* type: one text per tier, the High text naming the cancer type
RecommendationExpected(riskLevel, cancerType) ==
    IF riskLevel = "High"
    THEN [text |-> "High-risk indicators detected", names |-> cancerType]
    ELSE IF riskLevel = "Moderate"
    THEN [text |-> "Moderate risk detected", names |-> None]
    ELSE [text |-> "Current biomarkers show low risk", names |-> None]

\* C24: the recommendation is a function of riskLevel and cancerType alone
\* (so two valid inputs with the same riskLevel and cancerType get the same
\* recommendation), the three tiers have three different texts, and the
\* High text contains the cancerType of the input.
C24_RecommendationByTier ==
    ValidDiagnosisCall =>
        /\ diagOut.recommendation =
              RecommendationExpected(diagOut.riskLevel, diagIn.cancerType)
        /\ Cardinality({RecommendationExpected(l, diagIn.cancerType).text :
                            l \in {"High", "Moderate", "Low"}}) = 3
        /\ diagOut.riskLevel = "High" => diagOut.recommendation.names = diagIn.cancerType

\* a lung call reported with probability 72, High, whose text names lung
C24_Witness ==
    /\ ValidDiagnosisCall
    /\ diagIn.cancerType = "lung"
    /\ diagOut.probability = 72
    /\ diagOut.riskLevel = "High"
    /\ diagOut.recommendation.names = "lung"

\* the routes of the doctor-request workflow behind requireAuth or requireRole
GuardedOps == {"postDoctorRequest", "patchDoctorRequest", "getPatient"}

\* C25: a logout leaves the session without userId and role; a request of
\* such a session to a route behind requireAuth or requireRole is answered
\* 401 and changes neither the tables nor the session; the session gets a
\* userId again only by a successful login; and a login with an unknown
\* email or a wrong password leaves the session as it was.
C25_LoggedOutIsNotAuthenticated ==
    [][/\ \A s \in SessionIds :
             /\ (resp'.op = "logout" /\ resp'.sid = s) => session'[s] = NoSession
             /\ (resp'.op \in GuardedOps /\ resp'.sid = s /\ session[s] = NoSession) =>
                   /\ resp'.code = 401
                   /\ UNCHANGED <<session, doctorRequests, patientCases, otherVars>>
             /\ (session[s] = NoSession /\ session'[s] # NoSession) =>
                   (resp'.op = "login" /\ resp'.sid = s /\ resp'.code = 200)
             /\ (resp'.op = "login" /\ resp'.sid = s) =>
                   \A ok \in BOOLEAN :
                       (Login(s, resp'.id, ok) /\ (resp'.id \notin UserIds \/ ~ok)) =>
                           session' = session]_vars

\* the session that was logged in when the stored request was created is
\* logged out, and its PATCH was answered 401
C25_Witness ==
    /\ resp.op = "patchDoctorRequest"
    /\ resp.id = 1
    /\ session[resp.sid] = NoSession
    /\ Len(doctorRequests) = 1
    /\ resp.code = 401

\* the response answers a patient-role session's read of an existing
\* patient profile or case
PatientReads ==
    /\ resp.op \in {"getPatient", "getCase", "getCasePdf"}
    /\ session[resp.sid].role = "patient"
    /\ resp.op = "getPatient" => resp.id \in PatientIds
    /\ resp.op # "getPatient" => resp.id \in DOMAIN patientCases

\* the patient a read is about: the profile's own id, the case's patientId
readPatientId == IF resp.op = "getPatient" THEN resp.id ELSE patientCases[resp.id].patientId

\* C27: a patient-role session's read of a patient profile
\* (GET /api/patients/:id) or of a case (GET /api/cases/:id, its PDF)
\* succeeds only when the profile or case belongs to the patient record of
\* that session, and is answered forbidden for any other patient's.
C27_PatientReadsOwnOnly ==
    PatientReads =>
        /\ resp.code = 200 =>
              readPatientId = getPatientByUserId(session[resp.sid].userId)
        /\ readPatientId # getPatientByUserId(session[resp.sid].userId) =>
              resp.code = 403

\* patient 1 was refused the PDF of a case of patient 2 that has a
\* treatment plan
C27_Witness ==
    /\ PatientReads
    /\ resp.op = "getCasePdf"
    /\ session[resp.sid].userId = 1
    /\ patientCases[resp.id].patientId = 2
    /\ patientCases[resp.id].treatmentPlan
    /\ resp.code = 403

\* what chunkText has pushed so far: a chunk is the pair of the index where
\* its slice starts and the index where it ends
ChunksWellFormed ==
    LET c == chunkCall IN
    /\ c.length = 0 => c.chunks = <<>>
    /\ \A k \in DOMAIN c.chunks :
          /\ c.chunks[k][2] - c.chunks[k][1] <= c.chunkSize
          /\ c.chunks[k][2] - c.chunks[k][1] >= 1
    /\ \A k \in DOMAIN c.chunks :
          k > 1 => c.chunks[k][1] = c.chunks[k - 1][1] + (c.chunkSize - c.overlap)
    /\ c.pc = "returned" =>
          \A i \in 0 .. (c.length - 1) :
              \E k \in DOMAIN c.chunks : c.chunks[k][1] <= i /\ i < c.chunks[k][2]

\* C29: for 0 <= overlap < chunkSize chunkText returns; it returns no chunk
\* for the empty text, every chunk is at most chunkSize long, every chunk
\* after the first starts chunkSize - overlap after the one before, and
\* every character of the text lies in some chunk.
C29_ChunkTextTerminatesAndCovers ==
    /\ [](chunkCall.pc # "none" => ChunksWellFormed)
    /\ <>(chunkCall.pc = "returned")

\* a text longer than a chunk, cut into overlapping chunks
C29_Witness ==
    /\ chunkCall.pc = "returned"
    /\ chunkCall.overlap > 0
    /\ chunkCall.length > chunkCall.chunkSize
    /\ Len(chunkCall.chunks) >= 2

\* the step is a call of POST /api/diagnosis/calculate
CalculateStep == resp = NoResp /\ resp'.op \in {"calculate", "calculateAgain"}

ProfilePatchStep == resp = NoResp /\ resp'.op \in {"patchPatient", "patchDoctor"}

\* the profile row the call names: its userId, Null when no row has the id
profileOwner(op, id) ==
    IF op = "patchPatient"
    THEN (IF id \in DOMAIN patientRows THEN patientRows[id].userId ELSE Null)
    ELSE (IF id \in DOMAIN doctorRows THEN doctorRows[id].userId ELSE Null)

\* C28: the account tables change only in a profile PATCH whose profile row
\* belongs to the session's user, and then only that profile row and that
\* user's row; an authenticated caller who is not the owner gets 403 and a
\* missing id gets 404, both with the tables unchanged.
C28_ProfilePatchOwnerOnly ==
    [][LET owner == profileOwner(resp'.op, resp'.id)
           caller == session[resp'.sid].userId
       IN  /\ <<userRows, patientRows, doctorRows>>' # <<userRows, patientRows, doctorRows>> =>
                 /\ ProfilePatchStep
                 /\ owner # Null
                 /\ owner = caller
                 /\ \A u \in DOMAIN userRows : u # owner => userRows'[u] = userRows[u]
                 /\ \A p \in DOMAIN patientRows :
                       (resp'.op = "patchDoctor" \/ p # resp'.id) =>
                           patientRows'[p] = patientRows[p]
                 /\ \A d \in DOMAIN doctorRows :
                       (resp'.op = "patchPatient" \/ d # resp'.id) =>
                           doctorRows'[d] = doctorRows[d]
           /\ (ProfilePatchStep /\ caller # Null /\ owner = Null) => resp'.code = 404
           /\ (ProfilePatchStep /\ caller # Null /\ owner # Null /\ owner # caller) =>
                 /\ resp'.code = 403
                 /\ UNCHANGED <<userRows, patientRows, doctorRows>>]_vars

\* a doctor, having renamed themself, is refused the profile of a patient
C28_Witness ==
    /\ resp.op = "patchPatient"
    /\ resp.code = 403
    /\ session[resp.sid].role = "doctor"
    /\ userRows[session[resp.sid].userId].name = "new name"
    /\ doctorRows[getDoctorByUserId(session[resp.sid].userId)].specialization = "new value"

\* a signup that answered anything but success
SignupRejected(p) == signupCalls[p].pc = "done" /\ signupCalls[p].code # 200

\* no two user rows share an email
EmailsUnique ==
    \A i, j \in DOMAIN userRows : userRows[i].email = userRows[j].email => i = j

\* C26: after any interleaving of signups no two user rows share an email,
\* and a rejected signup has stored no user row, no patient row and no
\* doctor row and has set no session.
C26_SignupUniqueAndClean ==
    /\ EmailsUnique
    /\ \A p \in SignupIds :
          SignupRejected(p) =>
              /\ signupCalls[p].user = Null
              /\ session[p] = NoSession
              /\ \A i \in DOMAIN patientRows : patientRows[i].userId # signupCalls[p].user
              /\ \A i \in DOMAIN doctorRows : doctorRows[i].userId # signupCalls[p].user

\* initializeAuth call i has started and not yet run its finally block
InFlight(i) == initCalls[i].pc \in {"fetch", "json"}

\* C30: whatever the interleaving of initializeAuth calls, setUser and
\* logout, a render of ProtectedRoute returns the children only when
\* isLoading is false and the user is set and has an allowed role; every
\* initializeAuth call that started finishes, also after a failed fetch,
\* and leaves isLoading false when it finishes.
C30_ProtectedRouteAndLoading ==
    /\ [][\A r \in Routes :
            (view'[r] # view[r] /\ view'[r] = "children") =>
                /\ ~auth.isLoading
                /\ auth.user # NoUser
                /\ auth.user \in allowedRoles(r)]_vars
    /\ [][\A i \in InitCallIds :
            (InFlight(i) /\ initCalls'[i].pc = "done") => ~auth'.isLoading]_vars
    /\ \A i \in InitCallIds : InFlight(i) ~> (initCalls[i].pc = "done")

\* two initializeAuth calls have finished and the doctor route shows its
\* children while the patient route shows nothing
C30_Witness ==
    /\ \E i, j \in InitCallIds :
          i # j /\ initCalls[i].pc = "done" /\ initCalls[j].pc = "done"
    /\ ~auth.isLoading
    /\ auth.user = "doctor"
    /\ view["doctor"] = "children"
    /\ view["patient"] = "nothing"

\* every finished read returned a version the row has had, and none older
\* than the version current when the read started
ReadsAtomicAndNotOlder ==
    \A r \in ReadIds :
        readCalls[r].pc = "done" =>
            \E k \in readCalls[r].since .. Len(versions) : versions[k] = readCalls[r].result

\* C21: a read of the request returns status, scheduleNote and proposedSlot
\* as some update left them or as they were before it, never a mixture, and
\* a read that started after an update had completed returns the status
\* that update wrote.
C21_ReadsSeeCompletedUpdate ==
    \A r \in ReadIds :
        readCalls[r].pc = "done" =>
            /\ \E k \in DOMAIN versions : versions[k] = readCalls[r].result
            /\ \A st \in readCalls[r].completed : readCalls[r].result.status = st

====
